---- MODULE Spec2Model ----
(***************************************************************************)
(* PAOA-Visualizer: graph generation (graph-utils), circuit construction   *)
(* and execution, and the SPSA step (paoa.ts).                             *)
(*                                                                         *)
(* Numbers in [0,1] are fixed-point: the integer v stands for v / Den.     *)
(***************************************************************************)
EXTENDS Integers, Sequences, FiniteSets, TLC

VARIABLES
    gpc,        \* position of the graph generator call
    gkind,      \* which generator was called
    gn,         \* argument n
    gd,         \* argument d (random regular) or p (Erdos-Renyi, fixed-point)
    attempts,   \* generateRandomRegularGraph: local counter `attempts`
    gedges,     \* edges of the returned GraphData
    gerr,       \* message of the Error thrown to the caller, "none" if none
    gvia        \* which return statement produced the graph

gvars == <<gpc, gkind, gn, gd, attempts, gedges, gerr, gvia>>

VARIABLES
    cpc,        \* position of the circuit scenario
    ctype,      \* AlgorithmType given to getCircuitGenerator / getRandomParams
    clayers,    \* argument layers
    cedges,     \* argument edges
    cparams,    \* argument params
    circuit,    \* CircuitGate[] returned by the builder
    reads,      \* indices of params the builder read
    randLen     \* length of the vector getRandomParams returned, -1 if not called

cvars == <<cpc, ctype, clayers, cedges, cparams, circuit, reads, randLen>>

VARIABLES
    startingBits, \* the caller's array handed to runCircuit / runCircuitStepByStep
    genState,     \* generator object: none, suspendedStart, suspendedYield, completed
    genBits,      \* runCircuitStepByStep: local array `bits`
    genIdx,       \* runCircuitStepByStep: gates consumed by the for-of loop
    yielded,      \* the StepInfo objects handed to the consumer, in order
    pulls,        \* calls of next() made by the consumer
    lastPull,     \* what the last next() returned: none, step, done
    draws,        \* calls of Math.random() made by the generator
    trialBits,    \* `bits` of one runCircuit trial fed the generator's draws
    numTrials,    \* runCircuit: argument numTrials
    bt,           \* runCircuit: loop variable t
    bIdx,         \* runCircuit: gates consumed by the inner for-of loop
    bBits,        \* runCircuit: local array `bits` of the running trial
    results,      \* runCircuit: `results`
    gateLog,      \* bitIndices of the gates applied so far, in order
    lastDraw,     \* r of the latest gate application, -1 before the first
    lastOut,      \* sampledIndex / outputState of the latest gate application
    lastMatched   \* whether the scan of the latest gate application took its break

dvars == <<lastDraw, lastOut, lastMatched>>

rvars == <<startingBits, genState, genBits, genIdx, yielded, pulls, lastPull,
           draws, trialBits, numTrials, bt, bIdx, bBits, results, gateLog, dvars>>

VARIABLES
    spc,        \* position of the training loop / inside spsaStep
    theta,      \* the caller's currentParams
    iter,       \* the caller's loop variable i, passed as iteration
    delta,      \* spsaStep: delta
    thetaPlus,  \* spsaStep: thetaPlus
    thetaMinus, \* spsaStep: thetaMinus
    costPlus,   \* spsaStep: costPlus
    costMinus,  \* spsaStep: costMinus
    newParams,  \* spsaStep: newParams
    cost,       \* spsaStep: currentCost, returned as cost
    evalLog,    \* the calls of objectiveFunction made by this call of spsaStep,
                \* in order: the vector passed and the value returned
    paramsAtCall \* content of currentParams when spsaStep was called

svars == <<spc, theta, iter, delta, thetaPlus, thetaMinus, costPlus, costMinus,
           newParams, cost, evalLog, paramsAtCall>>

VARIABLES
    xpc,        \* position of the cutSize call
    xbits,      \* cutSize: argument x
    xedges,     \* cutSize: argument edges
    xcut        \* cutSize: the value returned

xvars == <<xpc, xbits, xedges, xcut>>

VARIABLES
    lpc,        \* position of the layout scenario
    lnodes,     \* graph.nodes: one record per node, positions in pixels
    ledges,     \* graph.edges
    lwidth,     \* stepForceLayout: argument width
    lheight,    \* stepForceLayout: argument height
    lalpha,     \* stepForceLayout: argument alpha of the latest call
    lbefore,    \* graph.nodes as they were when the latest call was made
    lsteps      \* calls of stepForceLayout made on this graph

lvars == <<lpc, lnodes, ledges, lwidth, lheight, lalpha, lbefore, lsteps>>

VARIABLES
    phase,       \* App: state `phase`
    optState,    \* App: state `optState`: the run that published it and its
                 \* iteration, run 0 for null
    paramsRef,   \* App: paramsRef.current: the run whose vector it holds, 0 for []
    runPc,       \* per call of runTraining: none, suspended (at its await), finished
    runI,        \* per call of runTraining: loop variable i
    runMax,      \* per call of runTraining: maxIter of its closure
    started,     \* calls of runTraining made so far
    interrupted, \* the calls during whose suspension Reset was clicked
    lateWrites   \* what interrupted calls wrote afterwards: <<call, what>>

avars == <<phase, optState, paramsRef, runPc, runI, runMax, started, interrupted,
           lateWrites>>

vars == <<gvars, cvars, rvars, svars, xvars, lvars, avars>>

outsideGraph == <<cvars, rvars, svars, xvars, lvars, avars>>

outsideCircuit == <<gvars, svars, xvars, lvars, avars>>

outsideSpsa == <<gvars, cvars, rvars, xvars, lvars, avars>>

outsideCut == <<gvars, cvars, rvars, svars, lvars, avars>>

outsideLayout == <<gvars, cvars, rvars, svars, xvars, avars>>

outsideApp == <<gvars, cvars, rvars, svars, xvars, lvars>>

\* ---------------------------------------------------------------- bounds
MaxN == 4          \* largest node count given to a generator
MaxD == 3          \* largest degree given to generateRandomRegularGraph
MaxPoints == 12    \* largest n*d for which the shuffle attempts are explored
Half == 2          \* fixed-point resolution: Den = 2 * Half
MaxLayers == 2     \* largest layer count given to a builder
MaxEdges == 2      \* longest edge list given to a builder
MaxParamLen == 4   \* longest parameter vector
MaxGates == 4      \* longest circuit that is executed
MaxTrials == 1     \* largest numTrials given to runCircuit
MaxExtraPulls == 2 \* next() calls made after the last StepInfo
MaxIter == 2       \* iterations of the training loop (maxIter)
MaxCost == 1       \* the objective returns -MaxCost .. 0, or NaN
NumNodes == 3      \* nodes of the graph a circuit runs on
MaxCutEdges == 2   \* longest edge list given to cutSize
MaxLayoutNodes == 2 \* most nodes of a graph given to stepForceLayout
MaxLayoutSteps == 2 \* calls of stepForceLayout made on one graph
MaxRuns == 2       \* calls of runTraining (clicks on Train)
MaxTrainIter == 6  \* largest maxIter of a training run

Den == 2 * Half

\* ------------------------------------------------------- graph-utils.ts
MaxAttempts == 100

Edge(u, v) == [source |-> u, target |-> v]

\* generateCompleteGraph: for i in 0..n-1, for j in i+1..n-1, push (i, j)
RECURSIVE CompleteLoop(_, _, _, _)
CompleteLoop(n, i, j, edges) ==
    IF i >= n THEN edges
    ELSE IF j >= n THEN CompleteLoop(n, i + 1, i + 2, edges)
    ELSE CompleteLoop(n, i, j + 1, Append(edges, Edge(i, j)))

CompleteEdges(n) == CompleteLoop(n, 0, 1, <<>>)

\* generateErdosRenyi: the same double loop, pair number q is pushed when
\* its draw is below p; incl[q] is the outcome of (Math.random() < p).
RECURSIVE ErdosLoop(_, _, _, _, _, _)
ErdosLoop(n, i, j, q, incl, edges) ==
    IF i >= n THEN edges
    ELSE IF j >= n THEN ErdosLoop(n, i + 1, i + 2, q, incl, edges)
    ELSE ErdosLoop(n, i, j + 1, q + 1, incl,
                   IF incl[q] THEN Append(edges, Edge(i, j)) ELSE edges)

NumPairs(n) == IF n < 2 THEN 0 ELSE (n * (n - 1)) \div 2

\* Outcomes of (Math.random() < p) for a draw in [0,1): always false when
\* p = 0, always true when p >= 1, either otherwise.
DrawBelow(p) == {b \in BOOLEAN : (b => p > 0) /\ (~b => p < Den)}

\* Fallback of generateRandomRegularGraph: cycle, plus skip-one when d > 2
RECURSIVE FallbackLoop(_, _, _, _)
FallbackLoop(n, d, i, edges) ==
    IF i >= n THEN edges
    ELSE LET e1 == Append(edges, Edge(i, (i + 1) % n))
             e2 == IF d > 2 THEN Append(e1, Edge(i, (i + 2) % n)) ELSE e1
         IN FallbackLoop(n, d, i + 1, e2)

\* mutant: the skip-one cycle is never added
FallbackCycleOnly(n, d) == FallbackLoop(n, 2, 0, <<>>)

FallbackEdges(n, d) == FallbackLoop(n, d, 0, <<>>)

EdgeKey(u, v) == IF u < v THEN <<u, v>> ELSE <<v, u>>

KeyLeq(a, b) == a[1] < b[1] \/ (a[1] = b[1] /\ a[2] <= b[2])

\* mutant: the degree check off by one (d > n)
RegularErrorOffByOne(n, d) ==
    IF (n * d) % 2 # 0 THEN "n * d must be even"
    ELSE IF d > n THEN "Degree must be less than n"
    ELSE "none"

\* The two checks at the head of generateRandomRegularGraph
RegularError(n, d) ==
    IF (n * d) % 2 # 0 THEN "n * d must be even"
    ELSE IF d >= n THEN "Degree must be less than n"
    ELSE "none"

\* tryGenerateRegularEdges.  cnt[w] is how many copies of node w are left in
\* the shuffled array `points` beyond the position read so far; the
\* Fisher-Yates shuffle can leave any arrangement of the multiset, so the next
\* two points are any two of the copies left.  A self-loop or a key already in
\* edgeSet throws; the caller catches and continues the loop.  The pairs are
\* enumerated up to the order in which they come out of the array (keys in
\* nondecreasing order): every successful array is such an array with its
\* pairs permuted, and the list returned is that list permuted.
RECURSIVE TryGenerateRegularEdges(_, _, _, _)
TryGenerateRegularEdges(cnt, edges, edgeSet, last) ==
    LET avail == {w \in DOMAIN cnt : cnt[w] > 0} IN
    IF avail = {}
    THEN /\ gpc' = "done"
         /\ gedges' = edges
         /\ gvia' = "attempt"
    ELSE \E u \in avail :
           LET c1 == [cnt EXCEPT ![u] = @ - 1] IN
           \E v \in {w \in DOMAIN c1 : c1[w] > 0} :
             LET key == EdgeKey(u, v) IN
             IF u = v \/ key \in edgeSet
             THEN /\ gpc' = "loop"          \* throw, caught: continue
                  /\ UNCHANGED <<gedges, gvia>>
             ELSE /\ KeyLeq(last, key)
                  /\ TryGenerateRegularEdges([c1 EXCEPT ![v] = @ - 1],
                         Append(edges, Edge(u, v)), edgeSet \cup {key}, key)

Points(n, d) == [w \in 0 .. (n - 1) |-> d]

\* ------------------------------------------- graph-utils.ts: layout
\* Coordinates are whole pixels and alpha is in units of 1 / AlphaDen;
\* Math.sqrt is rounded down and every quotient is rounded toward zero.
AlphaDen == 1000

\* if (alpha <= 0.005) return
FreezeThreshold == 5

\* const padding = 40
Padding == 40

\* mutant: the step freezes only below the threshold
FrozenBelow(alpha) == alpha < FreezeThreshold

Frozen(alpha) == alpha <= FreezeThreshold

TruncDiv(x, y) == IF x >= 0 THEN x \div y ELSE 0 - ((0 - x) \div y)

RECURSIVE SqrtLoop(_, _, _)
SqrtLoop(v, lo, hi) ==
    IF lo >= hi THEN lo
    ELSE LET mid == (lo + hi + 1) \div 2
         IN IF mid * mid <= v THEN SqrtLoop(v, mid, hi)
            ELSE SqrtLoop(v, lo, mid - 1)

\* Math.sqrt(v) for v >= 0, rounded down
Sqrt(v) == SqrtLoop(v, 0, IF v < 2000 THEN v ELSE 2000)

\* const k = Math.sqrt((width * height) / (graph.nodes.length + 1)) * 2.5
LayoutK(width, height, n) == (5 * Sqrt((width * height) \div (n + 1))) \div 2

\* const repulsion = k * k * 2.0
Repulsion(k) == k * k * 2

ZeroForces(n) == [i \in 1 .. n |-> [fx |-> 0, fy |-> 0]]

\* the force of the pair (n1, n2) in the repulsion loop: d2 is
\* dx*dx + dy*dy || 0.1, and dx = dy = 0 when the sum is 0
RepulsionForce(n1, n2, repulsion, alpha) ==
    LET dx == n1.x - n2.x
        dy == n1.y - n2.y
        d2 == dx * dx + dy * dy
        dist == Sqrt(d2)
        f == IF d2 = 0 THEN 0 ELSE TruncDiv(TruncDiv(repulsion * alpha, d2), AlphaDen)
    IN IF d2 = 0 \/ dist = 0 THEN [fx |-> 0, fy |-> 0]
       ELSE [fx |-> TruncDiv(dx * f, dist), fy |-> TruncDiv(dy * f, dist)]

\* for i, for j > i: forces[i] += (fx, fy); forces[j] -= (fx, fy)
RECURSIVE RepulsionLoop(_, _, _, _, _, _)
RepulsionLoop(nodes, repulsion, alpha, i, j, forces) ==
    IF i > Len(nodes) THEN forces
    ELSE IF j > Len(nodes)
         THEN RepulsionLoop(nodes, repulsion, alpha, i + 1, i + 2, forces)
    ELSE LET f == RepulsionForce(nodes[i], nodes[j], repulsion, alpha)
         IN RepulsionLoop(nodes, repulsion, alpha, i, j + 1,
                [forces EXCEPT ![i] = [fx |-> @.fx + f.fx, fy |-> @.fy + f.fy],
                               ![j] = [fx |-> @.fx - f.fx, fy |-> @.fy - f.fy]])

\* the force of one edge in the attraction loop: dist is Math.sqrt(...) || 0.1
\* and f = ((dist * dist) / k) * alpha * 0.5
AttractionForce(n1, n2, k, alpha) ==
    LET dx == n1.x - n2.x
        dy == n1.y - n2.y
        dist == Sqrt(dx * dx + dy * dy)
        f == TruncDiv(dist * dist * alpha, k * 2 * AlphaDen)
    IN IF dist = 0 THEN [fx |-> 0, fy |-> 0]
       ELSE [fx |-> TruncDiv(dx * f, dist), fy |-> TruncDiv(dy * f, dist)]

\* for (const edge of graph.edges): forces[idx1] -= (fx, fy); forces[idx2] += (fx, fy)
RECURSIVE AttractionLoop(_, _, _, _, _, _)
AttractionLoop(nodes, edges, k, alpha, e, forces) ==
    IF e > Len(edges) THEN forces
    ELSE LET idx1 == edges[e].source + 1
             idx2 == edges[e].target + 1
             f == AttractionForce(nodes[idx1], nodes[idx2], k, alpha)
             f1 == [forces EXCEPT ![idx1] = [fx |-> @.fx - f.fx, fy |-> @.fy - f.fy]]
         IN AttractionLoop(nodes, edges, k, alpha, e + 1,
                [f1 EXCEPT ![idx2] = [fx |-> @.fx + f.fx, fy |-> @.fy + f.fy]])

\* Math.max(padding, Math.min(limit - padding, v))
Bound(v, limit) ==
    LET m == IF v < limit - Padding THEN v ELSE limit - Padding
    IN IF m > Padding THEN m ELSE Padding

\* the update loop for one node: fixed nodes are skipped; the others get the
\* centre gravity (cx - x) * 0.01 * alpha, the displacement and the bounds
UpdateNode(node, force, width, height, alpha) ==
    IF node.fixed THEN node
    ELSE LET fx == force.fx + TruncDiv((width \div 2 - node.x) * alpha, 100 * AlphaDen)
             fy == force.fy + TruncDiv((height \div 2 - node.y) * alpha, 100 * AlphaDen)
         IN [node EXCEPT !.x = Bound(node.x + fx, width),
                         !.y = Bound(node.y + fy, height)]

\* stepForceLayout(graph, width, height, alpha): graph.nodes afterwards
stepForceLayout(nodes, edges, width, height, alpha) ==
    IF Frozen(alpha) THEN nodes
    ELSE LET k == LayoutK(width, height, Len(nodes))
             rep == RepulsionLoop(nodes, Repulsion(k), alpha, 1, 2, ZeroForces(Len(nodes)))
             forces == AttractionLoop(nodes, edges, k, alpha, 1, rep)
         IN [i \in 1 .. Len(nodes) |->
                UpdateNode(nodes[i], forces[i], width, height, alpha)]

\* positions a node is handed in with: the circle of initNodes (centre
\* (400, 300), radius 300) for n = 1, 2, 4, and one point inside the padding
StartPoints == {<<700, 300>>, <<100, 300>>, <<400, 600>>, <<100, 100>>}

\* canvas sizes: narrower than two paddings, and wider
CanvasSizes == {60, 400}

\* values of alpha: 0, the threshold, just above it, and the start value 1
Alphas == {0, FreezeThreshold, FreezeThreshold + 1, AlphaDen}

LayoutNode(i, pt, fixed) == [id |-> i, x |-> pt[1], y |-> pt[2], fixed |-> fixed]

\* ------------------------------------------------------------- paoa.ts
NaN == -1000000

AlgorithmTypes == {"reduced", "minimum", "standard"}

ZeroMatrix == [row \in 0 .. 3 |-> [col \in 0 .. 3 |-> 0]]

\* params[k] || 0.5 : params is 0-indexed in the source; a missing slot is
\* undefined, and undefined, 0 and NaN are falsy.
ParamOrHalf(params, k) ==
    IF k + 1 \in DOMAIN params /\ params[k + 1] # 0 /\ params[k + 1] # NaN
    THEN params[k + 1]
    ELSE Half

Gate(edge, matrix) == [bitIndices |-> <<edge.source, edge.target>>, matrix |-> matrix]

\* mutant: matrix[2][1] gets p2 instead of 1 - p2
PaoaMatrixNoComplement(p1, p2) ==
    [ZeroMatrix EXCEPT ![1][0] = p1, ![2][3] = p1,
                       ![2][0] = Den - p1, ![1][3] = Den - p1,
                       ![1][1] = p2, ![2][2] = p2,
                       ![1][2] = Den - p2, ![2][1] = p2]

\* matrix of reducedPaoaCircuit / minimumPaoaCircuit
PaoaMatrix(p1, p2) ==
    [ZeroMatrix EXCEPT ![1][0] = p1, ![2][3] = p1,
                       ![2][0] = Den - p1, ![1][3] = Den - p1,
                       ![1][1] = p2, ![2][2] = p2,
                       ![1][2] = Den - p2, ![2][1] = Den - p2]

\* reducedPaoaCircuit: for l, for edge: p = params[k] || 0.5 ... k++
RECURSIVE ReducedLoop(_, _, _, _, _, _, _)
ReducedLoop(edges, params, layers, l, e, k, acc) ==
    IF l >= layers THEN acc
    ELSE IF e > Len(edges) THEN ReducedLoop(edges, params, layers, l + 1, 1, k, acc)
    ELSE LET p == ParamOrHalf(params, k)
         IN ReducedLoop(edges, params, layers, l, e + 1, k + 1,
                [circuit |-> Append(acc.circuit, Gate(edges[e], PaoaMatrix(p, p))),
                 reads |-> acc.reads \cup {k}])

\* mutant: the loops nested the other way round (edge-major)
RECURSIVE ReducedEdgeMajor(_, _, _, _, _, _, _)
ReducedEdgeMajor(edges, params, layers, l, e, k, acc) ==
    IF e > Len(edges) THEN acc
    ELSE IF l >= layers THEN ReducedEdgeMajor(edges, params, layers, 0, e + 1, k, acc)
    ELSE LET p == ParamOrHalf(params, k)
         IN ReducedEdgeMajor(edges, params, layers, l + 1, e, k + 1,
                [circuit |-> Append(acc.circuit, Gate(edges[e], PaoaMatrix(p, p))),
                 reads |-> acc.reads \cup {k}])

reducedEdgeMajor(edges, params, layers) ==
    ReducedEdgeMajor(edges, params, layers, 0, 1, 0, [circuit |-> <<>>, reads |-> {}])

reducedPaoaCircuit(edges, params, layers) ==
    ReducedLoop(edges, params, layers, 0, 1, 0, [circuit |-> <<>>, reads |-> {}])

\* minimumPaoaCircuit: p1, p2 read once per layer at m, m+1; m += 2
RECURSIVE MinimumEdges(_, _, _, _, _)
MinimumEdges(edges, p1, p2, e, circ) ==
    IF e > Len(edges) THEN circ
    ELSE MinimumEdges(edges, p1, p2, e + 1,
                      Append(circ, Gate(edges[e], PaoaMatrix(p1, p2))))

RECURSIVE MinimumLoop(_, _, _, _, _, _)
MinimumLoop(edges, params, layers, l, m, acc) ==
    IF l >= layers THEN acc
    ELSE LET p1 == ParamOrHalf(params, m)
             p2 == ParamOrHalf(params, m + 1)
         IN MinimumLoop(edges, params, layers, l + 1, m + 2,
                [circuit |-> MinimumEdges(edges, p1, p2, 1, acc.circuit),
                 reads |-> acc.reads \cup {m, m + 1}])

minimumPaoaCircuit(edges, params, layers) ==
    MinimumLoop(edges, params, layers, 0, 0, [circuit |-> <<>>, reads |-> {}])

\* mutant: matrix[2][col] = 1 - val is not written
RECURSIVE StandardColsNoMirror(_, _, _, _)
StandardColsNoMirror(params, k, col, matrix) ==
    IF col >= 4 THEN matrix
    ELSE LET val == ParamOrHalf(params, k + col)
         IN StandardColsNoMirror(params, k, col + 1, [matrix EXCEPT ![1][col] = val])

\* standardPaoaCircuit: for col in 0..3: val = params[k + col] || 0.5;
\* matrix[1][col] = val; matrix[2][col] = 1 - val.  k += 4
RECURSIVE StandardCols(_, _, _, _)
StandardCols(params, k, col, matrix) ==
    IF col >= 4 THEN matrix
    ELSE LET val == ParamOrHalf(params, k + col)
         IN StandardCols(params, k, col + 1,
                [matrix EXCEPT ![1][col] = val, ![2][col] = Den - val])

RECURSIVE StandardLoop(_, _, _, _, _, _, _)
StandardLoop(edges, params, layers, l, e, k, acc) ==
    IF l >= layers THEN acc
    ELSE IF e > Len(edges) THEN StandardLoop(edges, params, layers, l + 1, 1, k, acc)
    ELSE StandardLoop(edges, params, layers, l, e + 1, k + 4,
             [circuit |-> Append(acc.circuit,
                                 Gate(edges[e], StandardCols(params, k, 0, ZeroMatrix))),
              reads |-> acc.reads \cup {k, k + 1, k + 2, k + 3}])

standardPaoaCircuit(edges, params, layers) ==
    StandardLoop(edges, params, layers, 0, 1, 0, [circuit |-> <<>>, reads |-> {}])

\* getCircuitGenerator(type)(numNodes, edges, params, layers)
getCircuitGenerator(type, edges, params, layers) ==
    CASE type = "minimum" -> minimumPaoaCircuit(edges, params, layers)
      [] type = "standard" -> standardPaoaCircuit(edges, params, layers)
      [] OTHER -> reducedPaoaCircuit(edges, params, layers)

\* mutant: the minimum variant counted per edge
RandomParamsCountPerEdge(type, layers, numEdges) ==
    CASE type = "reduced" -> layers * numEdges
      [] type = "minimum" -> 2 * layers * numEdges
      [] type = "standard" -> 4 * layers * numEdges
      [] OTHER -> 0

\* getRandomParams: the length of the vector returned
RandomParamsCount(type, layers, numEdges) ==
    CASE type = "reduced" -> layers * numEdges
      [] type = "minimum" -> 2 * layers
      [] type = "standard" -> 4 * layers * numEdges
      [] OTHER -> 0

\* ------------------------------------------------ paoa.ts: execution
Nodes == 0 .. (NumNodes - 1)

Draws == 0 .. (Den - 1)       \* Math.random() is in [0,1)

\* column `state` of the matrix: [matrix[0][s], ..., matrix[3][s]]
Column(matrix, state) == [k \in 0 .. 3 |-> matrix[k][state]]

\* mutant: the scan compares with r < cumulative
RECURSIVE ApplySampleStrict(_, _, _, _)
ApplySampleStrict(probs, r, k, cumulative) ==
    IF k >= 4 THEN 3
    ELSE IF r < cumulative + probs[k] THEN k
    ELSE ApplySampleStrict(probs, r, k + 1, cumulative + probs[k])

\* applyGate, the cumulative scan: for k in 0..3: cumulative += probs[k];
\* if (r <= cumulative) { sampledIndex = k; break }   -- default 3
RECURSIVE ApplySampleLoop(_, _, _, _)
ApplySampleLoop(probs, r, k, cumulative) ==
    IF k >= 4 THEN 3
    ELSE IF r <= cumulative + probs[k] THEN k
    ELSE ApplySampleLoop(probs, r, k + 1, cumulative + probs[k])

\* runCircuitStepByStep, its own copy of the scan (outputState, default 3)
RECURSIVE StepSampleLoop(_, _, _, _)
StepSampleLoop(probs, r, k, cumulative) ==
    IF k >= 4 THEN 3
    ELSE IF r <= cumulative + probs[k] THEN k
    ELSE StepSampleLoop(probs, r, k + 1, cumulative + probs[k])

\* applyGate, the scan: whether `break` is taken for some k
RECURSIVE ApplyBreaks(_, _, _, _)
ApplyBreaks(probs, r, k, cumulative) ==
    IF k >= 4 THEN FALSE
    ELSE IF r <= cumulative + probs[k] THEN TRUE
    ELSE ApplyBreaks(probs, r, k + 1, cumulative + probs[k])

\* runCircuitStepByStep, the scan: whether `break` is taken for some k
RECURSIVE StepBreaks(_, _, _, _)
StepBreaks(probs, r, k, cumulative) ==
    IF k >= 4 THEN FALSE
    ELSE IF r <= cumulative + probs[k] THEN TRUE
    ELSE StepBreaks(probs, r, k + 1, cumulative + probs[k])

\* applyGate: currentIndex and the column probs of the gate for these bits
CurrentIndex(bits, gate) == bits[gate.bitIndices[1]] * 2 + bits[gate.bitIndices[2]]

Probs(bits, gate) == Column(gate.matrix, CurrentIndex(bits, gate))

\* mutant: the two decoded bits are written to the wrong endpoints
applyGateSwapped(bits, gate, r) ==
    LET i == gate.bitIndices[1]
        j == gate.bitIndices[2]
        sampledIndex == ApplySampleLoop(Probs(bits, gate), r, 0, 0)
        b1 == [bits EXCEPT ![i] = sampledIndex % 2]
    IN [b1 EXCEPT ![j] = (sampledIndex \div 2) % 2]

\* applyGate(bits, gate) with the draw r: mutates bits[i], then bits[j]
applyGate(bits, gate, r) ==
    LET i == gate.bitIndices[1]
        j == gate.bitIndices[2]
        currentIndex == bits[i] * 2 + bits[j]
        sampledIndex == ApplySampleLoop(Column(gate.matrix, currentIndex), r, 0, 0)
        b1 == [bits EXCEPT ![i] = (sampledIndex \div 2) % 2]
    IN [b1 EXCEPT ![j] = sampledIndex % 2]

\* one iteration of the for-of loop of runCircuitStepByStep with the draw r:
\* the StepInfo yielded and the local `bits` afterwards.  bitsAfter is the
\* array `bits` itself, not a copy: the StepInfo keeps a reference to it
\* (afterAtYield is its content at the time of the yield).
GeneratorStep(bits, gate, r) ==
    LET bitsBefore == bits
        i == gate.bitIndices[1]
        j == gate.bitIndices[2]
        inputState == bits[i] * 2 + bits[j]
        probs == Column(gate.matrix, inputState)
        outputState == StepSampleLoop(probs, r, 0, 0)
        n1 == [bits EXCEPT ![i] = (outputState \div 2) % 2]
        nextBits == [n1 EXCEPT ![j] = outputState % 2]
        b1 == [bits EXCEPT ![i] = nextBits[i]]
        b2 == [b1 EXCEPT ![j] = nextBits[j]]
    IN [bits |-> b2,
        step |-> [activeEdge |-> gate.bitIndices,
                  matrix |-> gate.matrix,
                  inputState |-> inputState,
                  outputState |-> outputState,
                  probs |-> probs,
                  bitsBefore |-> bitsBefore,
                  bitsAfter |-> "bits",
                  afterAtYield |-> b2]]

\* what a consumer reads in step.bitsAfter now
BitsAfter(step) == genBits

\* edge lists handed to the builders: the first m edges of a list over Nodes
BaseEdges == FallbackEdges(NumNodes, 3)

EdgeLists == {SubSeq(BaseEdges, 1, m) : m \in 0 .. MaxEdges}

SeqsUpTo(S, n) == UNION {[1 .. m -> S] : m \in 0 .. n}

NoBits == <<>>


\* ------------------------------------------------- paoa.ts: cutSize
\* for (const edge of edges) if (x[edge.source] !== x[edge.target]) cut += 1
RECURSIVE CutLoop(_, _, _, _)
CutLoop(x, edges, e, cut) ==
    IF e > Len(edges) THEN cut
    ELSE CutLoop(x, edges, e + 1,
                 IF x[edges[e].source] # x[edges[e].target] THEN cut + 1 ELSE cut)

\* mutant: the cut is counted downwards (cut -= 1)
cutSizeNegative(x, edges) == 0 - CutLoop(x, edges, 1, 0)

cutSize(x, edges) == CutLoop(x, edges, 1, 0)

\* edges over valid node indices, in either direction, self-loops included
NodePairs == {Edge(u, v) : u \in Nodes, v \in Nodes}

\* ------------------------------------------------- paoa.ts: spsaStep
\* Numbers of spsaStep are fixed-point in units of 1 / Unit.
Unit == 10000

spsa_a == 1000        \* a = 0.1
spsa_c == 1000        \* c = 0.1
spsa_A == 10          \* A = 10

\* Math.pow(k + 1 + A, alpha) with alpha = 0.602, for k = 0 .. 7
PowAlpha == <<42356, 44634, 46838, 48974, 51051, 53074, 55047, 56974>>

\* Math.pow(k + 1, gamma) with gamma = 0.101, for k = 0 .. 7
PowGamma == <<10000, 10725, 11174, 11503, 11765, 11984, 12172, 12337>>

\* ak = a / Math.pow(k + 1 + A, alpha)
Ak(k) == (spsa_a * Unit) \div PowAlpha[k + 1]

\* ck = c / Math.pow(k + 1, gamma)
Ck(k) == (spsa_c * Unit) \div PowGamma[k + 1]

\* division of the fixed-point arithmetic, rounding toward zero
Quot(x, y) == IF x >= 0 THEN x \div y ELSE 0 - ((0 - x) \div y)

\* mutant: the upper clip Math.min(1, x) is missing
ClipLowerOnly(x) ==
    IF x = NaN THEN NaN
    ELSE IF x < 0 THEN 0
    ELSE x

\* Math.max(0, Math.min(1, x)); Math.min and Math.max return NaN for NaN
Clip(x) ==
    IF x = NaN THEN NaN
    ELSE IF x > Unit THEN Unit
    ELSE IF x < 0 THEN 0
    ELSE x

\* currentParams.map((p, i) => clip(p + ck * delta[i]))
ThetaPlus(params, k, dlt) ==
    [i \in DOMAIN params |->
        Clip(IF params[i] = NaN THEN NaN ELSE params[i] + Ck(k) * dlt[i])]

\* currentParams.map((p, i) => clip(p - ck * delta[i]))
ThetaMinus(params, k, dlt) ==
    [i \in DOMAIN params |->
        Clip(IF params[i] = NaN THEN NaN ELSE params[i] - Ck(k) * dlt[i])]

\* ak * gh with gh = (costPlus - costMinus) / (2 * ck); NaN if a cost is NaN
AkGh(cp, cm, k) ==
    IF cp = NaN \/ cm = NaN THEN NaN
    ELSE Quot(Ak(k) * (cp - cm) * Unit, 2 * Ck(k))

\* mutant: the update leaves out the sign delta[i]
NewParamsNoSign(params, cp, cm, k, dlt) ==
    [i \in DOMAIN params |->
        Clip(IF params[i] = NaN \/ AkGh(cp, cm, k) = NaN THEN NaN
             ELSE params[i] - AkGh(cp, cm, k))]

\* currentParams.map((p, i) => clip(p - ak * gh * delta[i]))
NewParams(params, cp, cm, k, dlt) ==
    [i \in DOMAIN params |->
        Clip(IF params[i] = NaN \/ AkGh(cp, cm, k) = NaN THEN NaN
             ELSE params[i] - AkGh(cp, cm, k) * dlt[i])]

\* values objectiveFunction can return
CostVals == ((0 - MaxCost) .. 0) \cup {NaN}

\* parameter vectors the training starts from: entries in [0,1]
StartThetas == SeqsUpTo({0, Unit \div 20, Unit \div 2, Unit}, 2)

\* ----------------------------------------------- graph generator calls
GraphInit ==
    /\ gpc = "idle"
    /\ gkind = "none"
    /\ gn = 0
    /\ gd = 0
    /\ attempts = 0
    /\ gedges = <<>>
    /\ gerr = "none"
    /\ gvia = "none"

GenerateCompleteGraph ==
    /\ gpc = "idle"
    /\ \E n \in 0 .. MaxN :
         /\ gn' = n
         /\ gedges' = CompleteEdges(n)
    /\ gkind' = "complete"
    /\ gpc' = "done"
    /\ gvia' = "complete"
    /\ UNCHANGED <<gd, attempts, gerr, outsideGraph>>

GenerateErdosRenyi ==
    /\ gpc = "idle"
    /\ \E n \in 0 .. MaxN, p \in 0 .. Den :
         /\ gn' = n
         /\ gd' = p
         /\ \E incl \in [1 .. NumPairs(n) -> DrawBelow(p)] :
              gedges' = ErdosLoop(n, 0, 1, 1, incl, <<>>)
    /\ gkind' = "erdos"
    /\ gpc' = "done"
    /\ gvia' = "erdos"
    /\ UNCHANGED <<attempts, gerr, outsideGraph>>

\* generateRandomRegularGraph, entry: the two throws, then attempts = 0
RegularCall ==
    /\ gpc = "idle"
    /\ \E n \in 0 .. MaxN, d \in 0 .. MaxD :
         /\ (RegularError(n, d) = "none" => n * d <= MaxPoints)
         /\ gn' = n
         /\ gd' = d
         /\ gerr' = RegularError(n, d)
         /\ gpc' = IF RegularError(n, d) = "none" THEN "loop" ELSE "thrown"
    /\ gkind' = "regular"
    /\ attempts' = 0
    /\ UNCHANGED <<gedges, gvia, outsideGraph>>

\* one iteration of while (attempts < 100)
RegularAttempt ==
    /\ gpc = "loop"
    /\ attempts < MaxAttempts
    /\ attempts' = attempts + 1
    /\ TryGenerateRegularEdges(Points(gn, gd), <<>>, {}, <<0, 0>>)
    /\ UNCHANGED <<gkind, gn, gd, gerr, outsideGraph>>

\* the loop ran out: fallback cycle graph
RegularFallback ==
    /\ gpc = "loop"
    /\ ~(attempts < MaxAttempts)
    /\ gedges' = FallbackEdges(gn, gd)
    /\ gvia' = "fallback"
    /\ gpc' = "done"
    /\ UNCHANGED <<gkind, gn, gd, attempts, gerr, outsideGraph>>

GraphNext ==
    \/ GenerateCompleteGraph
    \/ GenerateErdosRenyi
    \/ RegularCall
    \/ RegularAttempt
    \/ RegularFallback


\* ------------------------------------------------- circuit scenario
CircuitInit ==
    /\ cpc = "start"
    /\ ctype = "reduced"
    /\ clayers = 0
    /\ cedges = <<>>
    /\ cparams = <<>>
    /\ circuit = <<>>
    /\ reads = {}
    /\ randLen = -1

RunInit ==
    /\ startingBits = NoBits
    /\ genState = "none"
    /\ genBits = NoBits
    /\ genIdx = 0
    /\ yielded = <<>>
    /\ pulls = 0
    /\ lastPull = "none"
    /\ draws = 0
    /\ trialBits = NoBits
    /\ numTrials = 0
    /\ bt = 0
    /\ bIdx = 0
    /\ bBits = NoBits
    /\ results = <<>>
    /\ gateLog = <<>>
    /\ lastDraw = -1
    /\ lastOut = -1
    /\ lastMatched = TRUE

\* the caller picks the variant, the layer count and the edge list
Configure ==
    /\ cpc = "start"
    /\ ctype' \in AlgorithmTypes
    /\ clayers' \in 0 .. MaxLayers
    /\ cedges' \in EdgeLists
    /\ cpc' = "configured"
    /\ UNCHANGED <<cparams, circuit, reads, randLen, outsideCircuit, rvars>>

\* params = getRandomParams(type, layers, edges.length): entries are draws
\* of Math.random()
GetRandomParams ==
    /\ cpc = "configured"
    /\ RandomParamsCount(ctype, clayers, Len(cedges)) <= MaxParamLen
    /\ cparams' \in [1 .. RandomParamsCount(ctype, clayers, Len(cedges)) -> Draws]
    /\ randLen' = Len(cparams')
    /\ cpc' = "params"
    /\ UNCHANGED <<ctype, clayers, cedges, circuit, reads, outsideCircuit, rvars>>

\* params handed in by the caller: any vector with entries in [0,1], of any
\* length (too short included)
CallerParams ==
    /\ cpc = "configured"
    /\ cparams' \in SeqsUpTo(0 .. Den, MaxParamLen)
    /\ cpc' = "params"
    /\ UNCHANGED <<ctype, clayers, cedges, circuit, reads, randLen, outsideCircuit, rvars>>

\* circuit = getCircuitGenerator(type)(n, edges, params, layers)
BuildCircuit ==
    /\ cpc = "params"
    /\ LET built == getCircuitGenerator(ctype, cedges, cparams, clayers)
       IN /\ circuit' = built.circuit
          /\ reads' = built.reads
    /\ cpc' = "built"
    /\ UNCHANGED <<ctype, clayers, cedges, cparams, randLen, outsideCircuit, rvars>>

BuildNext ==
    \/ Configure
    \/ GetRandomParams
    \/ CallerParams
    \/ BuildCircuit

\* --------------------------------------------------- execution scenario
\* a circuit is built in one step from a variant, a layer count, an edge
\* list and a parameter vector of at most one entry (the other slots are
\* missing)
BuildForRun ==
    /\ cpc = "start"
    /\ \E type \in AlgorithmTypes, layers \in 0 .. MaxLayers, edges \in EdgeLists,
          params \in SeqsUpTo(0 .. Den, 1) :
         /\ layers * Len(edges) <= MaxGates
         /\ ctype' = type
         /\ clayers' = layers
         /\ cedges' = edges
         /\ cparams' = params
         /\ circuit' = getCircuitGenerator(type, edges, params, layers).circuit
         /\ reads' = getCircuitGenerator(type, edges, params, layers).reads
    /\ cpc' = "built"
    /\ UNCHANGED <<randLen, outsideCircuit, rvars>>

\* gen = runCircuitStepByStep(startingBits, circuit): nothing of the body
\* runs before the first next()
StartInspect ==
    /\ cpc = "built"
    /\ startingBits' \in [Nodes -> {0, 1}]
    /\ genState' = "suspendedStart"
    /\ cpc' = "inspecting"
    /\ UNCHANGED <<ctype, clayers, cedges, cparams, circuit, reads, randLen, outsideCircuit,
                   genBits, genIdx, yielded, pulls, lastPull, draws, trialBits,
                   numTrials, bt, bIdx, bBits, results, gateLog,
                   dvars>>

\* gen.next() while gates are left: runs the body up to the next yield
PullStep ==
    /\ cpc = "inspecting"
    /\ genState \in {"suspendedStart", "suspendedYield"}
    /\ genIdx < Len(circuit)
    /\ LET bits == IF genState = "suspendedStart" THEN startingBits ELSE genBits
           trial == IF genState = "suspendedStart" THEN startingBits ELSE trialBits
           gate == circuit[genIdx + 1]
       IN \E r \in Draws :
            /\ genBits' = GeneratorStep(bits, gate, r).bits
            /\ yielded' = Append(yielded, GeneratorStep(bits, gate, r).step)
            /\ trialBits' = applyGate(trial, gate, r)
            /\ gateLog' = Append(gateLog, gate.bitIndices)
            /\ lastDraw' = r
            /\ lastOut' = GeneratorStep(bits, gate, r).step.outputState
            /\ lastMatched' = StepBreaks(Probs(bits, gate), r, 0, 0)
    /\ genIdx' = genIdx + 1
    /\ draws' = draws + 1
    /\ pulls' = pulls + 1
    /\ lastPull' = "step"
    /\ genState' = "suspendedYield"
    /\ UNCHANGED <<cvars, outsideCircuit, startingBits, numTrials, bt, bIdx, bBits, results>>

\* mutant: at the end of the loop the generator starts over
PullEndRestart ==
    /\ cpc = "inspecting"
    /\ genState \in {"suspendedStart", "suspendedYield"}
    /\ genIdx >= Len(circuit)
    /\ genBits' = startingBits
    /\ trialBits' = startingBits
    /\ genIdx' = 0
    /\ genState' = "suspendedYield"
    /\ pulls' = pulls + 1
    /\ pulls < Len(circuit) + MaxExtraPulls
    /\ lastPull' = "done"
    /\ UNCHANGED <<cvars, outsideCircuit, startingBits, yielded, draws,
                   numTrials, bt, bIdx, bBits, results, gateLog,
                   dvars>>

\* gen.next() when the for-of loop is over: the body returns
PullEnd ==
    /\ cpc = "inspecting"
    /\ genState \in {"suspendedStart", "suspendedYield"}
    /\ genIdx >= Len(circuit)
    /\ genBits' = (IF genState = "suspendedStart" THEN startingBits ELSE genBits)
    /\ trialBits' = (IF genState = "suspendedStart" THEN startingBits ELSE trialBits)
    /\ genState' = "completed"
    /\ pulls' = pulls + 1
    /\ lastPull' = "done"
    /\ UNCHANGED <<cvars, outsideCircuit, startingBits, genIdx, yielded, draws,
                   numTrials, bt, bIdx, bBits, results, gateLog,
                   dvars>>

\* gen.next() on a completed generator
PullCompleted ==
    /\ cpc = "inspecting"
    /\ genState = "completed"
    /\ pulls < Len(circuit) + MaxExtraPulls
    /\ pulls' = pulls + 1
    /\ lastPull' = "done"
    /\ UNCHANGED <<cvars, outsideCircuit, startingBits, genState, genBits, genIdx, yielded,
                   draws, trialBits, numTrials, bt, bIdx, bBits, results, gateLog,
                   dvars>>

\* runCircuit(startingBits, circuit, numTrials): entry, first trial's copy
RunCircuitCall ==
    /\ cpc = "built"
    /\ startingBits' \in [Nodes -> {0, 1}]
    /\ numTrials' \in 0 .. MaxTrials
    /\ bt' = 0
    /\ bIdx' = 0
    /\ bBits' = startingBits'
    /\ results' = <<>>
    /\ cpc' = "batch"
    /\ UNCHANGED <<ctype, clayers, cedges, cparams, circuit, reads, randLen, outsideCircuit,
                   genState, genBits, genIdx, yielded, pulls, lastPull, draws,
                   trialBits, gateLog,
                   dvars>>

\* for (const gate of circuit) applyGate(bits, gate)
RunCircuitGate ==
    /\ cpc = "batch"
    /\ bt < numTrials
    /\ bIdx < Len(circuit)
    /\ \E r \in Draws :
         /\ bBits' = applyGate(bBits, circuit[bIdx + 1], r)
         /\ lastDraw' = r
         /\ lastOut' = ApplySampleLoop(Probs(bBits, circuit[bIdx + 1]), r, 0, 0)
         /\ lastMatched' = ApplyBreaks(Probs(bBits, circuit[bIdx + 1]), r, 0, 0)
    /\ gateLog' = Append(gateLog, circuit[bIdx + 1].bitIndices)
    /\ bIdx' = bIdx + 1
    /\ UNCHANGED <<cvars, outsideCircuit, startingBits, genState, genBits, genIdx, yielded,
                   pulls, lastPull, draws, trialBits, numTrials, bt, results>>

\* results.push(bits); t++; bits = [...startingBits]
RunCircuitTrialEnd ==
    /\ cpc = "batch"
    /\ bt < numTrials
    /\ bIdx >= Len(circuit)
    /\ results' = Append(results, bBits)
    /\ bt' = bt + 1
    /\ bBits' = startingBits
    /\ bIdx' = 0
    /\ gateLog' = <<>>
    /\ UNCHANGED <<cvars, outsideCircuit, startingBits, genState, genBits, genIdx, yielded,
                   pulls, lastPull, draws, trialBits, numTrials,
                   dvars>>

\* return results
RunCircuitReturn ==
    /\ cpc = "batch"
    /\ ~(bt < numTrials)
    /\ cpc' = "batchDone"
    /\ UNCHANGED <<ctype, clayers, cedges, cparams, circuit, reads, randLen, outsideCircuit, rvars>>

RunNext ==
    \/ BuildForRun
    \/ StartInspect
    \/ PullStep
    \/ PullEnd
    \/ PullCompleted
    \/ RunCircuitCall
    \/ RunCircuitGate
    \/ RunCircuitTrialEnd
    \/ RunCircuitReturn

\* ----------------------------------------------------- training scenario
SpsaInit ==
    /\ spc = "start"
    /\ theta = <<>>
    /\ iter = 0
    /\ delta = <<>>
    /\ thetaPlus = <<>>
    /\ thetaMinus = <<>>
    /\ costPlus = 0
    /\ costMinus = 0
    /\ newParams = <<>>
    /\ cost = 0
    /\ evalLog = <<>>
    /\ paramsAtCall = <<>>

\* the caller's starting vector (runTraining: initialParams)
InitialParams ==
    /\ spc = "start"
    /\ theta' \in StartThetas
    /\ spc' = "loop"
    /\ UNCHANGED <<iter, delta, thetaPlus, thetaMinus, costPlus, costMinus,
                   newParams, cost, evalLog, paramsAtCall, outsideSpsa>>

\* spsaStep(currentParams, i, objective) up to the first objective call:
\* ak, ck, delta, thetaPlus
SpsaCall ==
    /\ spc = "loop"
    /\ iter < MaxIter
    /\ delta' \in [DOMAIN theta -> {1, -1}]
    /\ thetaPlus' = ThetaPlus(theta, iter, delta')
    /\ evalLog' = <<>>
    /\ paramsAtCall' = theta
    /\ spc' = "costPlus"
    /\ UNCHANGED <<theta, iter, thetaMinus, costPlus, costMinus, newParams, cost,
                   outsideSpsa>>

\* costPlus = objectiveFunction(thetaPlus); thetaMinus
ObjectivePlus ==
    /\ spc = "costPlus"
    /\ costPlus' \in CostVals
    /\ evalLog' = Append(evalLog, [at |-> thetaPlus, value |-> costPlus'])
    /\ thetaMinus' = ThetaMinus(theta, iter, delta)
    /\ spc' = "costMinus"
    /\ UNCHANGED <<theta, iter, delta, thetaPlus, costMinus, newParams, cost,
                   paramsAtCall, outsideSpsa>>

\* costMinus = objectiveFunction(thetaMinus); gh; newParams
ObjectiveMinus ==
    /\ spc = "costMinus"
    /\ costMinus' \in CostVals
    /\ evalLog' = Append(evalLog, [at |-> thetaMinus, value |-> costMinus'])
    /\ newParams' = NewParams(theta, costPlus, costMinus', iter, delta)
    /\ spc' = "currentCost"
    /\ UNCHANGED <<theta, iter, delta, thetaPlus, thetaMinus, costPlus, cost,
                   paramsAtCall, outsideSpsa>>

\* mutant: the third evaluation is left out and costPlus is returned as cost
ObjectiveNewSkipped ==
    /\ spc = "currentCost"
    /\ cost' = costPlus
    /\ spc' = "returned"
    /\ UNCHANGED <<theta, iter, delta, thetaPlus, thetaMinus, costPlus, costMinus,
                   newParams, evalLog, paramsAtCall, outsideSpsa>>

\* currentCost = objectiveFunction(newParams); return { newParams, cost }
ObjectiveNew ==
    /\ spc = "currentCost"
    /\ cost' \in CostVals
    /\ evalLog' = Append(evalLog, [at |-> newParams, value |-> cost'])
    /\ spc' = "returned"
    /\ UNCHANGED <<theta, iter, delta, thetaPlus, thetaMinus, costPlus, costMinus,
                   newParams, paramsAtCall, outsideSpsa>>

\* the caller: currentParams = newParams; i++
TrainingAssign ==
    /\ spc = "returned"
    /\ theta' = newParams
    /\ iter' = iter + 1
    /\ spc' = "loop"
    /\ UNCHANGED <<delta, thetaPlus, thetaMinus, costPlus, costMinus, newParams,
                   cost, evalLog, paramsAtCall, outsideSpsa>>

SpsaNext ==
    \/ InitialParams
    \/ SpsaCall
    \/ ObjectivePlus
    \/ ObjectiveMinus
    \/ ObjectiveNew
    \/ TrainingAssign

\* ---------------------------------------------------------- cutSize calls
CutInit ==
    /\ xpc = "idle"
    /\ xbits = NoBits
    /\ xedges = <<>>
    /\ xcut = 0

\* cut = cutSize(x, edges) for a binary assignment x and an edge list
CutSizeCall ==
    /\ xpc = "idle"
    /\ xbits' \in [Nodes -> {0, 1}]
    /\ xedges' \in SeqsUpTo(NodePairs, MaxCutEdges)
    /\ xcut' = cutSize(xbits', xedges')
    /\ xpc' = "returned"
    /\ UNCHANGED outsideCut

CutNext == CutSizeCall

\* ------------------------------------------------------ layout scenario
LayoutInit ==
    /\ lpc = "start"
    /\ lnodes = <<>>
    /\ ledges = <<>>
    /\ lwidth = 0
    /\ lheight = 0
    /\ lalpha = 0
    /\ lbefore = <<>>
    /\ lsteps = 0

\* the caller's graph and canvas: nodes at given positions, some of them
\* fixed, and the first edges of the cycle over the nodes
LayoutGraph ==
    /\ lpc = "start"
    /\ \E n \in 1 .. MaxLayoutNodes :
         /\ \E pts \in [1 .. n -> StartPoints], fx \in [1 .. n -> BOOLEAN] :
               lnodes' = [i \in 1 .. n |-> LayoutNode(i - 1, pts[i], fx[i])]
         /\ \E m \in 0 .. n : ledges' = SubSeq(FallbackEdges(n, 2), 1, m)
    /\ lwidth' \in CanvasSizes
    /\ lheight' \in CanvasSizes
    /\ lbefore' = lnodes'
    /\ lpc' = "graph"
    /\ UNCHANGED <<lalpha, lsteps, outsideLayout>>

\* stepForceLayout(graph, width, height, alpha)
StepForceLayout ==
    /\ lpc \in {"graph", "stepped"}
    /\ lsteps < MaxLayoutSteps
    /\ \E alpha \in Alphas :
         /\ lalpha' = alpha
         /\ lnodes' = stepForceLayout(lnodes, ledges, lwidth, lheight, alpha)
    /\ lbefore' = lnodes
    /\ lsteps' = lsteps + 1
    /\ lpc' = "stepped"
    /\ UNCHANGED <<ledges, lwidth, lheight, outsideLayout>>

LayoutNext ==
    \/ LayoutGraph
    \/ StepForceLayout

\* ------------------------------------------------- App.tsx: training
\* if (i % 5 === 0) { setOptState(...); await new Promise(r => setTimeout(r, 0)) }
YieldEvery == 5

Runs == 1 .. MaxRuns

NullOptState == [run |-> 0, iteration |-> -1]

\* the next value of i at which the loop of runTraining awaits, from i on
NextYield(i) == i + ((YieldEvery - (i % YieldEvery)) % YieldEvery)

\* what the call `run` writes, if Reset was clicked while it was suspended
Late(run, what) == IF run \in interrupted THEN {<<run, w>> : w \in what} ELSE {}

AppInit ==
    /\ phase = "idle"
    /\ optState = NullOptState
    /\ paramsRef = 0
    /\ runPc = [r \in Runs |-> "none"]
    /\ runI = [r \in Runs |-> 0]
    /\ runMax = [r \in Runs |-> 0]
    /\ started = 0
    /\ interrupted = {}
    /\ lateWrites = {}

\* click on Train (shown while phase is 'idle'): runTraining up to its first
\* await, which is in iteration i = 0
TrainClick ==
    /\ phase = "idle"
    /\ started < MaxRuns
    /\ started' = started + 1
    /\ \E m \in 1 .. MaxTrainIter : runMax' = [runMax EXCEPT ![started + 1] = m]
    /\ phase' = "training"
    /\ optState' = [run |-> started + 1, iteration |-> 0]
    /\ runI' = [runI EXCEPT ![started + 1] = 0]
    /\ runPc' = [runPc EXCEPT ![started + 1] = "suspended"]
    /\ UNCHANGED <<paramsRef, interrupted, lateWrites, outsideApp>>

\* the timer of a suspended call fires and the loop goes on to its next
\* await: i++ and iterations up to the next multiple of 5 below maxIter
TrainingResume(run) ==
    /\ runPc[run] = "suspended"
    /\ NextYield(runI[run] + 1) < runMax[run]
    /\ runI' = [runI EXCEPT ![run] = NextYield(runI[run] + 1)]
    /\ optState' = [run |-> run, iteration |-> runI'[run]]
    /\ lateWrites' = lateWrites \cup Late(run, {"optState"})
    /\ UNCHANGED <<phase, paramsRef, runPc, runMax, started, interrupted, outsideApp>>

\* the timer of a suspended call fires and the loop runs to its end:
\* paramsRef.current = currentParams; setOptState(...); setPhase('trained')
TrainingFinish(run) ==
    /\ runPc[run] = "suspended"
    /\ NextYield(runI[run] + 1) >= runMax[run]
    /\ runI' = [runI EXCEPT ![run] = runMax[run]]
    /\ paramsRef' = run
    /\ optState' = [run |-> run, iteration |-> runMax[run]]
    /\ phase' = "trained"
    /\ runPc' = [runPc EXCEPT ![run] = "finished"]
    /\ lateWrites' = lateWrites \cup Late(run, {"params", "optState", "phase"})
    /\ UNCHANGED <<runMax, started, interrupted, outsideApp>>

\* click on Reset: handleReset sets the phase and initGraph resets the
\* published state; nothing is done about a suspended runTraining
ResetClick ==
    /\ phase' = "idle"
    /\ optState' = NullOptState
    /\ paramsRef' = 0
    /\ interrupted' = interrupted \cup {r \in Runs : runPc[r] = "suspended"}
    /\ UNCHANGED <<runPc, runI, runMax, started, lateWrites, outsideApp>>

\* click on Reset when the graph generator throws: initGraph's catch leaves
\* out the reset of the published state
ResetGraphError ==
    /\ phase' = "idle"
    /\ interrupted' = interrupted \cup {r \in Runs : runPc[r] = "suspended"}
    /\ UNCHANGED <<optState, paramsRef, runPc, runI, runMax, started, lateWrites,
                   outsideApp>>

AppNext ==
    \/ TrainClick
    \/ \E run \in Runs : TrainingResume(run)
    \/ \E run \in Runs : TrainingFinish(run)
    \/ ResetClick
    \/ ResetGraphError

\* ------------------------------------------------------ specifications
Init == GraphInit /\ CircuitInit /\ RunInit /\ SpsaInit /\ CutInit /\ LayoutInit /\ AppInit

SpecGraph == Init /\ [][GraphNext]_vars

SpecBuild == Init /\ [][BuildNext]_vars

SpecRun == Init /\ [][RunNext]_vars

SpecSpsa == Init /\ [][SpsaNext]_vars

SpecCut == Init /\ [][CutNext]_vars

SpecLayout == Init /\ [][LayoutNext]_vars

SpecApp == Init /\ [][AppNext]_vars

\* ------------------------------------------------ graph properties
Degree(v, edges) ==
    Cardinality({k \in 1 .. Len(edges) : edges[k].source = v})
    + Cardinality({k \in 1 .. Len(edges) : edges[k].target = v})

IsSimpleGraph(n, edges) ==
    /\ \A k \in 1 .. Len(edges) :
         /\ edges[k].source # edges[k].target
         /\ edges[k].source \in 0 .. (n - 1)
         /\ edges[k].target \in 0 .. (n - 1)
    /\ \A k, m \in 1 .. Len(edges) :
         k # m => EdgeKey(edges[k].source, edges[k].target)
                  # EdgeKey(edges[m].source, edges[m].target)

ValidRegularInput(n, d) == (n * d) % 2 = 0 /\ d < n

\* C2: every graph returned by generateRandomRegularGraph(n, d), from an
\* attempt or from the fallback, has n*d/2 edges and every node of degree d.
C2_RegularDegrees ==
    (gkind = "regular" /\ gpc = "done") =>
        /\ 2 * Len(gedges) = gn * gd
        /\ \A v \in 0 .. (gn - 1) : Degree(v, gedges) = gd

\* C3: every graph returned by a generator (complete, Erdos-Renyi, random
\* regular from an attempt or from the fallback) is simple: no self-loop,
\* endpoints in 0..n-1, no unordered pair twice.
C3_SimpleGraph ==
    gpc = "done" => IsSimpleGraph(gn, gedges)

\* C4: generateRandomRegularGraph throws exactly when n*d is odd or d >= n,
\* and it throws before any attempt and without a graph; otherwise nothing
\* is thrown to the caller.
C4_InvalidParameter ==
    (gkind = "regular" /\ gpc # "idle") =>
        /\ (gerr # "none") <=> ((gn * gd) % 2 = 1 \/ gd >= gn)
        /\ gerr # "none" =>
              gpc = "thrown" /\ attempts = 0 /\ gedges = <<>> /\ gvia = "none"
        /\ gerr = "none" => gpc \in {"loop", "done"}

C4_Witness ==
    /\ gkind = "regular" /\ gpc = "thrown"
    /\ gn = 2 /\ gd = 3 /\ gerr = "Degree must be less than n"

\* C5: for valid (n, d) the call ends with a graph: at most 100 attempts, an
\* attempt's graph has no self-loop and no duplicate edge, after 100 failed
\* attempts the result is the cycle i -> (i+1) mod n plus, when d > 2, the
\* skip-one cycle i -> (i+2) mod n; while the loop runs a next step exists.
C5_TerminatesWithGraph ==
    (gkind = "regular" /\ gerr = "none" /\ gpc # "idle") =>
        /\ attempts \in 0 .. 100
        /\ gpc = "loop" =>
              /\ gvia = "none"
              /\ (attempts < 100 => ENABLED RegularAttempt)
              /\ (attempts = 100 => ENABLED RegularFallback)
        /\ gpc = "done" => gvia \in {"attempt", "fallback"}
        /\ gvia = "attempt" =>
              /\ attempts \in 1 .. 100
              /\ \A k \in 1 .. Len(gedges) : gedges[k].source # gedges[k].target
              /\ \A k, m \in 1 .. Len(gedges) :
                   k # m => {gedges[k].source, gedges[k].target}
                            # {gedges[m].source, gedges[m].target}
        /\ gvia = "fallback" =>
              /\ attempts = 100
              /\ Len(gedges) = (IF gd > 2 THEN 2 * gn ELSE gn)
              /\ {gedges[k] : k \in 1 .. Len(gedges)} =
                   {Edge(i, (i + 1) % gn) : i \in 0 .. (gn - 1)}
                   \cup (IF gd > 2
                         THEN {Edge(i, (i + 2) % gn) : i \in 0 .. (gn - 1)}
                         ELSE {})

C5_Witness ==
    /\ gkind = "regular" /\ gpc = "done" /\ gvia = "fallback"
    /\ gn = 4 /\ gd = 3 /\ attempts = 100 /\ Len(gedges) = 8

\* --------------------------------------------- circuit properties
Sum4(f) == f[0] + f[1] + f[2] + f[3]

\* C1: for each builder, every edge list, layer count and parameter vector
\* with entries in [0,1] (too short included), each of the 4 columns of every
\* gate matrix sums to 1 and every entry is in [0,1].
C1_ColumnStochastic ==
    cpc = "built" =>
        \A g \in 1 .. Len(circuit) : \A col \in 0 .. 3 :
            /\ Sum4([row \in 0 .. 3 |-> circuit[g].matrix[row][col]]) = Den
            /\ \A row \in 0 .. 3 : circuit[g].matrix[row][col] \in 0 .. Den

C1_Witness ==
    /\ cpc = "built" /\ ctype = "minimum" /\ Len(circuit) = 2
    /\ Len(cparams) = 1 /\ cparams[1] = 1
    /\ circuit[1].matrix[2][0] = Den - 1

\* C7: the sequence of runCircuitStepByStep is pull-based and finite: after m
\* calls of next() exactly min(m, |circuit|) gates have been applied and as
\* many random values drawn, the first |circuit| calls return a StepInfo and
\* every later call returns the end marker.
C7_PullBased ==
    cpc = "inspecting" =>
        LET m == IF pulls < Len(circuit) THEN pulls ELSE Len(circuit) IN
        /\ Len(yielded) = m
        /\ draws = m
        /\ genIdx = m
        /\ Len(gateLog) = m
        /\ (genState = "suspendedStart" => pulls = 0 /\ genBits = NoBits)
        /\ (pulls = 0 => lastPull = "none")
        /\ (pulls \in 1 .. Len(circuit) => lastPull = "step")
        /\ (pulls > Len(circuit) => lastPull = "done" /\ genState = "completed")

C7_Witness ==
    /\ cpc = "inspecting" /\ Len(circuit) = 2 /\ pulls = 4
    /\ Len(yielded) = 2 /\ lastPull = "done"

\* C8: with the same initial bits, circuit and random draws, the bits after
\* the last step of runCircuitStepByStep are the final bits of a runCircuit
\* trial; bitsBefore of step 0 is the initial bits and bitsBefore of step i+1
\* is bitsAfter of step i as it was when step i was yielded.
C8_SameAsBatch ==
    (cpc = "inspecting" /\ genState # "suspendedStart") =>
        /\ genBits = trialBits
        /\ Len(yielded) >= 1 =>
              /\ yielded[Len(yielded)].afterAtYield = trialBits
              /\ yielded[1].bitsBefore = startingBits
        /\ \A i \in 1 .. (Len(yielded) - 1) :
              yielded[i + 1].bitsBefore = yielded[i].afterAtYield

C8_Witness ==
    /\ cpc = "inspecting" /\ Len(circuit) = 4 /\ Len(yielded) = 4
    /\ ctype = "standard"
    /\ yielded[4].afterAtYield = trialBits
    /\ trialBits # startingBits
    /\ yielded[3].outputState = 0

\* C9: the circuit for `layers` layers over the edge list E has layers*|E|
\* gates, gate l*|E|+e acts on (E[e].source, E[e].target), and runCircuit and
\* runCircuitStepByStep go through the gates in this index order.
EdgeAt(index) ==
    <<cedges[(index % Len(cedges)) + 1].source, cedges[(index % Len(cedges)) + 1].target>>

C9_LayerMajorOrder ==
    cpc # "start" =>
        /\ Len(circuit) = clayers * Len(cedges)
        /\ \A l \in 0 .. (clayers - 1) : \A e \in 0 .. (Len(cedges) - 1) :
              circuit[l * Len(cedges) + e + 1].bitIndices
                  = <<cedges[e + 1].source, cedges[e + 1].target>>
        /\ \A k \in 1 .. Len(gateLog) : gateLog[k] = EdgeAt(k - 1)
        /\ \A k \in 1 .. Len(yielded) : yielded[k].activeEdge = EdgeAt(k - 1)
        /\ cpc = "batch" => Len(gateLog) = bIdx
        /\ cpc = "inspecting" => Len(gateLog) = Len(yielded)

C9_Witness ==
    /\ cpc = "inspecting" /\ clayers = 2 /\ Len(cedges) = 2
    /\ Len(yielded) = 4 /\ yielded[3].activeEdge = <<0, 1>>
    /\ yielded[4].activeEdge = <<0, 2>>

\* C10: getRandomParams returns layers*numEdges entries for 'reduced',
\* 2*layers for 'minimum', 4*layers*numEdges for 'standard', and the builder
\* reads exactly the indices 0..length-1 for the same layers and edge count.
ExpectedCount ==
    IF ctype = "reduced" THEN clayers * Len(cedges)
    ELSE IF ctype = "minimum" THEN 2 * clayers
    ELSE 4 * clayers * Len(cedges)

C10_ParamCount ==
    /\ (cpc \in {"params", "built"} /\ randLen # -1) =>
          randLen = ExpectedCount /\ Len(cparams) = ExpectedCount
    /\ cpc = "built" => reads = 0 .. (ExpectedCount - 1)

C10_Witness ==
    /\ cpc = "built" /\ ctype = "minimum" /\ clayers = 2 /\ Len(cedges) = 2
    /\ randLen = 4 /\ reads = 0 .. 3

\* ------------------------------------------------ optimizer properties
InUnitInterval(v) == \A i \in DOMAIN v : v[i] # NaN /\ v[i] >= 0 /\ v[i] <= Unit

\* C6 as stated: after any sequence of spsaStep calls from a vector in [0,1],
\* with any objective function and any sign vector, every entry of newParams
\* is in [0,1] and newParams is as long as the input.
C6_AnyObjective ==
    spc \in {"currentCost", "returned"} =>
        InUnitInterval(newParams) /\ Len(newParams) = Len(theta)

\* a perturbed evaluation of this call or of an earlier one returned NaN
SawNaN == costPlus = NaN \/ costMinus = NaN \/ (\E i \in DOMAIN theta : theta[i] = NaN)

\* C6 as amended: the same, for an objective function whose perturbed
\* evaluations have all returned finite numbers (never NaN).
C6_ParamsStayInRange ==
    (spc \in {"currentCost", "returned"} /\ ~SawNaN) =>
        InUnitInterval(newParams) /\ Len(newParams) = Len(theta)

C6_Witness ==
    /\ spc = "returned" /\ iter = 1 /\ ~SawNaN /\ cost # NaN /\ Len(theta) = 2
    /\ costPlus # costMinus
    /\ newParams[1] = Unit /\ theta[1] < Unit
    /\ newParams[2] = 0 /\ theta[2] > 0

\* ------------------------------------------------ parameter slots
\* the value stored at index k of the parameter vector, 0.5 if there is none
SlotValue(k) == IF k + 1 \in DOMAIN cparams THEN cparams[k + 1] ELSE Half

\* the index of the parameter vector that gives matrix[1][col] of gate g
\* (g counted from 0), per variant
SlotOf(g, col) ==
    IF ctype = "reduced" THEN g
    ELSE IF ctype = "minimum"
         THEN 2 * (g \div Len(cedges)) + (IF col \in {0, 3} THEN 0 ELSE 1)
    ELSE 4 * g + col

\* the entry matrix[1][col] holds when built from the value p: p itself in
\* the standard variant and in columns 0 and 1, 1 - p in columns 2 and 3 of
\* the reduced and minimum variants
EntryFor(col, p) ==
    IF ctype = "standard" \/ col \in {0, 1} THEN p ELSE Den - p

\* C11: in every builder the value used for a slot is the stored value when
\* the slot is present, for every stored value in [0,1], and 0.5 only when
\* the slot is missing; matrix[2][col] mirrors matrix[1][col].
C11_StoredValueUsed ==
    cpc = "built" =>
        \A g \in 0 .. (Len(circuit) - 1) : \A col \in 0 .. 3 :
            /\ circuit[g + 1].matrix[1][col] = EntryFor(col, SlotValue(SlotOf(g, col)))
            /\ circuit[g + 1].matrix[2][col] = Den - circuit[g + 1].matrix[1][col]

\* ------------------------------------------------------- cut properties
\* C12: cutSize(x, edges) is the number of edges whose endpoints hold
\* different bits: it lies in [0, |edges|], is 0 when all bits of x are equal
\* and is |edges| when the endpoints of every edge hold different bits.
C12_CutSize ==
    xpc = "returned" =>
        /\ xcut = Cardinality({e \in 1 .. Len(xedges) :
                                 xbits[xedges[e].source] # xbits[xedges[e].target]})
        /\ xcut \in 0 .. Len(xedges)
        /\ (\A u, v \in Nodes : xbits[u] = xbits[v]) => xcut = 0
        /\ (\A e \in 1 .. Len(xedges) :
               xbits[xedges[e].source] # xbits[xedges[e].target]) => xcut = Len(xedges)

C12_Witness ==
    /\ xpc = "returned" /\ Len(xedges) = 2 /\ xcut = 2
    /\ xedges[1] # xedges[2]
    /\ \E u, v \in Nodes : xbits[u] # xbits[v]

\* ---------------------------------------------------- layout properties
\* C13: a call of stepForceLayout with alpha 0, or any alpha at or below the
\* freeze threshold 0.005, changes no node position, however many times it is
\* repeated and whatever the graph and the canvas size.
C13_FrozenIsNoOp ==
    (lpc = "stepped" /\ lalpha <= FreezeThreshold) => lnodes = lbefore

C13_Witness ==
    /\ lpc = "stepped" /\ lsteps = 2 /\ lalpha = FreezeThreshold
    /\ Len(lnodes) = 2 /\ Len(ledges) = 1 /\ lnodes = lbefore
    /\ ~lnodes[1].fixed /\ lnodes[1].x > lwidth - Padding

\* ------------------------------------------------- gate application
\* P[0] + ... + P[k]
CumSum(P, k) == IF k = 0 THEN P[0]
                ELSE IF k = 1 THEN P[0] + P[1]
                ELSE IF k = 2 THEN P[0] + P[1] + P[2]
                ELSE P[0] + P[1] + P[2] + P[3]

\* the smallest k in 0..3 with P[0] + ... + P[k] >= r, 3 if there is none
SmallestK(P, r) ==
    IF \E k \in 0 .. 3 : CumSum(P, k) >= r
    THEN CHOOSE k \in 0 .. 3 :
            CumSum(P, k) >= r /\ \A m \in 0 .. (k - 1) : CumSum(P, m) < r
    ELSE 3

\* the assignment after a gate on (i, j) sampled k: bits[i] = floor(k/2) mod 2,
\* bits[j] = k mod 2, every other position as before
RuleBits(bits, i, j, k) ==
    [n \in DOMAIN bits |->
        IF n = i THEN (k \div 2) % 2 ELSE IF n = j THEN k % 2 ELSE bits[n]]

\* the rule applied to the assignment `bits` for gate `gate` and draw r
RuleResult(bits, gate, r) ==
    LET i == gate.bitIndices[1]
        j == gate.bitIndices[2]
        s == 2 * bits[i] + bits[j]
    IN RuleBits(bits, i, j, SmallestK(Column(gate.matrix, s), r))

IsBinary(bits) == \A n \in DOMAIN bits : bits[n] \in {0, 1}

\* C14: one gate on edge (i, j) with draw r takes the input state
\* s = 2*bits[i] + bits[j], samples the smallest k whose cumulative sum of
\* column s reaches r (3 if none), sets bits[i] = floor(k/2) mod 2 and
\* bits[j] = k mod 2 and leaves every other position alone, all entries
\* staying 0 or 1; applyGate (batch) and the inspection sequence both do so.
C14_GateRule ==
    [][ /\ (cpc = "batch" /\ bIdx' = bIdx + 1) =>
              /\ bBits' = RuleResult(bBits, circuit[bIdx + 1], lastDraw')
              /\ IsBinary(bBits')
        /\ (cpc = "inspecting" /\ Len(yielded') = Len(yielded) + 1) =>
              LET bits == IF genState = "suspendedStart" THEN startingBits ELSE genBits
                  gate == circuit[genIdx + 1]
                  st == yielded'[Len(yielded')]
              IN /\ st.bitsBefore = bits
                 /\ st.inputState = 2 * bits[gate.bitIndices[1]] + bits[gate.bitIndices[2]]
                 /\ st.probs = Column(gate.matrix, st.inputState)
                 /\ st.outputState = SmallestK(st.probs, lastDraw')
                 /\ genBits' = RuleResult(bits, gate, lastDraw')
                 /\ st.afterAtYield = genBits'
                 /\ IsBinary(genBits')
      ]_vars

C14_Witness ==
    /\ cpc = "batch" /\ bIdx = 2 /\ lastDraw = Den - 1 /\ lastOut = 2
    /\ bBits # startingBits
    /\ circuit[2].matrix[1][CurrentIndex(startingBits, circuit[2])] \in 1 .. (Den - 1)

\* C15: in a circuit of the standard variant rows 0 and 3 of every gate
\* matrix are 0 in every column, and for every input assignment and every
\* draw r in [0,1) the sampled output state of every gate is 1 or 2, never 0
\* or 3, in batch mode and in inspection mode.
C15_StandardOutputs ==
    (ctype = "standard" /\ cpc \in {"built", "batch", "batchDone", "inspecting"}) =>
        /\ \A g \in 1 .. Len(circuit) : \A col \in 0 .. 3 :
              circuit[g].matrix[0][col] = 0 /\ circuit[g].matrix[3][col] = 0
        /\ lastOut # -1 => lastOut \in {1, 2}
        /\ \A k \in 1 .. Len(yielded) : yielded[k].outputState \in {1, 2}

\* C16: for every gate of any builder, every input state and every draw r in
\* [0,1) the scan finds a k in 0..3 whose cumulative sum reaches r, so the
\* default output state 3 is never the value used; every output is a state in
\* 0..3.
C16_DefaultNeverUsed ==
    cpc \in {"batch", "batchDone", "inspecting"} =>
        /\ lastMatched
        /\ lastOut \in -1 .. 3
        /\ \A k \in 1 .. Len(yielded) :
              /\ yielded[k].outputState \in 0 .. 3
              /\ CumSum(yielded[k].probs, 3) = Den
        /\ (cpc = "inspecting" /\ Len(yielded) >= 1) =>
              LET st == yielded[Len(yielded)]
              IN /\ CumSum(st.probs, st.outputState) >= lastDraw
                 /\ lastOut = st.outputState

C16_Witness ==
    /\ cpc = "inspecting" /\ ctype = "standard" /\ Len(yielded) = 1
    /\ lastMatched /\ lastDraw = Den - 1 /\ yielded[1].outputState = 2
    /\ CumSum(yielded[1].probs, 1) < lastDraw

\* C17: each StepInfo handed to the consumer holds snapshots: bitsBefore is
\* the assignment before its gate, bitsAfter the assignment after its gate,
\* and what the consumer reads in them does not change when later steps are
\* pulled.
C17_Snapshots ==
    cpc = "inspecting" =>
        \A k \in 1 .. Len(yielded) :
            /\ yielded[k].bitsBefore =
                  (IF k = 1 THEN startingBits ELSE yielded[k - 1].afterAtYield)
            /\ BitsAfter(yielded[k]) = yielded[k].afterAtYield

\* ---------------------------------------------------- the SPSA update
\* a_k * g_i with g_i = (f(theta+) - f(theta-)) / (2 * c_k * Delta_i); for
\* Delta_i in {+1, -1} dividing by Delta_i is multiplying by it
AkTimesG(i) ==
    IF costPlus = NaN \/ costMinus = NaN THEN NaN
    ELSE Quot(Ak(iter) * (costPlus - costMinus) * Unit * delta[i], 2 * Ck(iter))

\* clip(x - y, 0, 1) with NaN carried through
ClipDiff(x, y) == IF x = NaN \/ y = NaN THEN NaN ELSE Clip(x - y)

\* theta+ and theta- are theta +/- c_k * Delta clipped componentwise
PerturbedAsStated ==
    /\ spc \in {"costPlus", "costMinus", "currentCost", "returned"} =>
          \A i \in DOMAIN theta :
              thetaPlus[i] = ClipDiff(theta[i], 0 - Ck(iter) * delta[i])
    /\ spc \in {"costMinus", "currentCost", "returned"} =>
          \A i \in DOMAIN theta :
              thetaMinus[i] = ClipDiff(theta[i], Ck(iter) * delta[i])

\* C18 as stated: newParams[i] = clip(theta_i - a_k * g_i * Delta_i, 0, 1)
\* with g_i = (f(theta+) - f(theta-)) / (2 * c_k * Delta_i), for every
\* component i and every sign Delta_i.
C18_UpdateAsStated ==
    /\ PerturbedAsStated
    /\ spc \in {"currentCost", "returned"} =>
          \A i \in DOMAIN theta :
              newParams[i] =
                  ClipDiff(theta[i],
                           IF AkTimesG(i) = NaN THEN NaN ELSE AkTimesG(i) * delta[i])

\* C18 as amended: newParams[i] = clip(theta_i - a_k * g_i, 0, 1) with the
\* same g_i, and theta+ / theta- are theta +/- c_k * Delta clipped.
C18_UpdateRule ==
    /\ PerturbedAsStated
    /\ spc \in {"currentCost", "returned"} =>
          \A i \in DOMAIN theta : newParams[i] = ClipDiff(theta[i], AkTimesG(i))

C18_Witness ==
    /\ spc = "returned" /\ iter = 1 /\ Len(theta) = 2
    /\ delta[1] = -1 /\ delta[2] = 1
    /\ costPlus # NaN /\ costMinus # NaN /\ costPlus > costMinus
    /\ theta[1] = Unit \div 2 /\ theta[2] = Unit \div 2
    /\ newParams[1] > theta[1] /\ newParams[2] < theta[2]

\* ------------------------------------------- the objective evaluations
NoNaN(v) == \A i \in DOMAIN v : v[i] # NaN

\* the evaluations made so far by the running call, in the stated order
EvaluationOrder ==
    spc \in {"costPlus", "costMinus", "currentCost", "returned"} =>
        /\ spc = "costPlus" => Len(evalLog) = 0
        /\ spc = "costMinus" => Len(evalLog) = 1
        /\ spc = "currentCost" => Len(evalLog) = 2
        /\ spc = "returned" => Len(evalLog) = 3
        /\ Len(evalLog) >= 1 =>
              /\ evalLog[1].at = [i \in DOMAIN theta |->
                                     ClipDiff(theta[i], 0 - Ck(iter) * delta[i])]
              /\ evalLog[1].value = costPlus
        /\ Len(evalLog) >= 2 =>
              /\ evalLog[2].at = [i \in DOMAIN theta |->
                                     ClipDiff(theta[i], Ck(iter) * delta[i])]
              /\ evalLog[2].value = costMinus
        /\ Len(evalLog) >= 3 =>
              /\ evalLog[3].at = newParams
              /\ evalLog[3].value = cost
        /\ theta = paramsAtCall

\* C19 as stated: one spsaStep evaluates the objective exactly three times,
\* at theta+ clipped, at theta- clipped and at the updated vector, in this
\* order; every vector passed to the objective has all entries in [0,1]; the
\* cost returned is the value of the third evaluation; currentParams is not
\* mutated.
C19_EvaluationsAsStated ==
    /\ EvaluationOrder
    /\ spc \in {"costPlus", "costMinus", "currentCost", "returned"} =>
          \A k \in 1 .. Len(evalLog) : InUnitInterval(evalLog[k].at)

\* C19 as amended: the same, with the range of the vectors passed to the
\* objective claimed for an input vector without NaN entries and, for the
\* third vector, evaluations at theta+ and theta- that returned finite
\* numbers (not NaN).
C19_ThreeEvaluations ==
    /\ EvaluationOrder
    /\ (spc \in {"costPlus", "costMinus", "currentCost", "returned"} /\ NoNaN(theta)) =>
          /\ \A k \in 1 .. Len(evalLog) :
                k <= 2 => InUnitInterval(evalLog[k].at)
          /\ (Len(evalLog) = 3 /\ costPlus # NaN /\ costMinus # NaN) =>
                InUnitInterval(evalLog[3].at)

C19_Witness ==
    /\ spc = "returned" /\ Len(evalLog) = 3 /\ Len(theta) = 2
    /\ costPlus = costMinus /\ cost = costPlus /\ cost = 0 - MaxCost
    /\ theta[1] = 0 /\ delta[1] = -1 /\ evalLog[1].at[1] = 0
    /\ evalLog[2].at[1] = Ck(iter) /\ evalLog[3].at = theta

\* ------------------------------------------------ training and Reset
\* C20: yielding during training has no consequence for the application
\* state: a training run interrupted by Reset never afterwards sets the phase
\* to 'trained' and never overwrites the stored parameter vector or the
\* published optimization state, at most one training run is active at a
\* time, and after Reset the phase stays 'idle' until Train is clicked.
C20_ResetStopsTraining ==
    /\ lateWrites = {}
    /\ Cardinality({r \in Runs : runPc[r] = "suspended"}) <= 1

\* C21: after a call of stepForceLayout with alpha above the freeze
\* threshold, for any canvas width and height, every node not marked fixed has
\* padding <= x <= width - padding and padding <= y <= height - padding, and
\* every node marked fixed keeps its position.
C21_WithinPadding ==
    (lpc = "stepped" /\ lalpha > FreezeThreshold) =>
        \A i \in 1 .. Len(lnodes) :
            IF lnodes[i].fixed
            THEN lnodes[i] = lbefore[i]
            ELSE /\ Padding <= lnodes[i].x /\ lnodes[i].x <= lwidth - Padding
                 /\ Padding <= lnodes[i].y /\ lnodes[i].y <= lheight - Padding

====
